---- MODULE Spec2Model ----
(***************************************************************************)
(* A model of the file picker command (src/src/commands/pick.ts).          *)
(*                                                                         *)
(* Strings are sequences of one-character strings, so that prefix, suffix, *)
(* split and trim are computed character by character as the code does.    *)
(* A Uri is represented by its path component: every Uri the command       *)
(* builds has the scheme "file" and no authority, query or fragment (the   *)
(* alphabet of the model has no ':', '?', '#' or '%').  The host is a      *)
(* POSIX one.                                                              *)
(***************************************************************************)
EXTENDS Integers, Sequences, FiniteSets, TLC

VARIABLES
  pc,           \* position in pickHandler / pickWithQuick
  opts,         \* the parsed options  (parseArgs(args).options)
  output,       \* the parsed output   (parseArgs(args).output)
  folders,      \* workspace.workspaceFolders, a sequence of [name, uri]
  dir,          \* pickWithQuick's parameter dir
  list,         \* the items handed to showQuickPick
  res,          \* what the last prompt resolved to
  uris,         \* the value of `uris` in pickHandler
  result,       \* what pickHandler returned
  listed,       \* the directory of the last fs.readDirectory call
  nPrompts,     \* number of quick-select prompts shown so far
  cancelled,    \* a prompt of this invocation was cancelled
  rpc,          \* position in a stand-alone resolvePath call
  rIn,          \* the arguments of that call and its environment
  rSub,         \* the path after resolveEnvVariables
  rOut          \* what resolvePath returned

vars == <<pc, opts, output, folders, dir, list, res, uris, result, listed,
          nPrompts, cancelled, rpc, rIn, rSub, rOut>>
navVars == <<pc, opts, output, folders, dir, list, res, uris, result, listed,
             nPrompts, cancelled>>
resVars == <<rpc, rIn, rSub, rOut>>

(***************************************************************************)
(* Bounds of the model.                                                    *)
(***************************************************************************)
MaxPrompts == 3     \* prompts shown in one invocation
MaxPick == 2        \* entries ticked in one multi-select prompt

(***************************************************************************)
(* Optional values: undefined / a value.                                   *)
(***************************************************************************)
None == [has |-> FALSE, v |-> <<>>]
Some(x) == [has |-> TRUE, v |-> x]

(***************************************************************************)
(* String helpers.                                                         *)
(***************************************************************************)
StartsWith(s, p) == Len(p) <= Len(s) /\ SubSeq(s, 1, Len(p)) = p
EndsWith(s, p) == Len(p) <= Len(s) /\ SubSeq(s, Len(s) - Len(p) + 1, Len(s)) = p
Contains(s, p) == \E i \in 1..(Len(s) - Len(p) + 1) : SubSeq(s, i, i + Len(p) - 1) = p

RECURSIVE Split(_, _)
\* String.prototype.split on a one-character separator.
Split(s, sep) ==
  IF \A i \in 1..Len(s) : s[i] # sep THEN <<s>>
  ELSE LET k == CHOOSE i \in 1..Len(s) : s[i] = sep /\ \A j \in 1..(i - 1) : s[j] # sep
       IN <<SubSeq(s, 1, k - 1)>> \o Split(SubSeq(s, k + 1, Len(s)), sep)

RECURSIVE JoinWith(_, _)
\* Array.prototype.join
JoinWith(parts, sep) ==
  IF Len(parts) = 0 THEN <<>>
  ELSE IF Len(parts) = 1 THEN parts[1]
  ELSE parts[1] \o sep \o JoinWith(Tail(parts), sep)

(***************************************************************************)
(* path.posix.normalize / join, as used by Uri.joinPath.                   *)
(***************************************************************************)
RECURSIVE NormalizeSegs(_, _, _)
\* normalizeString: drop "" and ".", let ".." remove the segment before it.
NormalizeSegs(segs, acc, allowAboveRoot) ==
  IF Len(segs) = 0 THEN acc
  ELSE LET s == Head(segs)
           rest == Tail(segs)
       IN IF s = <<>> \/ s = <<".">> THEN NormalizeSegs(rest, acc, allowAboveRoot)
          ELSE IF s = <<".", ".">> THEN
            IF Len(acc) > 0 /\ acc[Len(acc)] # <<".", ".">>
              THEN NormalizeSegs(rest, SubSeq(acc, 1, Len(acc) - 1), allowAboveRoot)
            ELSE IF allowAboveRoot THEN NormalizeSegs(rest, Append(acc, s), allowAboveRoot)
            ELSE NormalizeSegs(rest, acc, allowAboveRoot)
          ELSE NormalizeSegs(rest, Append(acc, s), allowAboveRoot)

PosixNormalize(p) ==
  IF Len(p) = 0 THEN <<".">>
  ELSE LET isAbsolute == p[1] = "/"
           trailing == p[Len(p)] = "/"
           body == JoinWith(NormalizeSegs(Split(p, "/"), <<>>, ~isAbsolute), <<"/">>)
       IN IF Len(body) = 0
            THEN IF isAbsolute THEN <<"/">> ELSE IF trailing THEN <<".", "/">> ELSE <<".">>
          ELSE (IF isAbsolute THEN <<"/">> ELSE <<>>) \o body
               \o (IF trailing THEN <<"/">> ELSE <<>>)

\* Uri.joinPath(base, fragment).path : posix.join(base.path, fragment)
JoinPath(base, frag) ==
  PosixNormalize(IF Len(frag) = 0 THEN base
                 ELSE IF Len(base) = 0 THEN frag
                 ELSE base \o <<"/">> \o frag)

\* Uri.parse(value).path for a value without scheme: the scheme defaults to
\* "file", and the path of a file Uri is made absolute ("" becomes "/").
UriParsePath(value) ==
  IF Len(value) = 0 THEN <<"/">>
  ELSE IF value[1] = "/" THEN value
  ELSE <<"/">> \o value

RECURSIVE Basename(_)
\* path.basename: the last segment, trailing separators ignored.
Basename(p) ==
  IF Len(p) = 0 THEN <<>>
  ELSE IF p[Len(p)] = "/" THEN Basename(SubSeq(p, 1, Len(p) - 1))
  ELSE LET segs == Split(p, "/") IN segs[Len(segs)]


(***************************************************************************)
(* Env-File Parser: parseEnvContent.                                       *)
(***************************************************************************)
WhiteSpace == {" ", "\t", "\n", "\r"}

RECURSIVE TrimStart(_)
TrimStart(s) == IF Len(s) > 0 /\ s[1] \in WhiteSpace THEN TrimStart(Tail(s)) ELSE s

RECURSIVE TrimEnd(_)
TrimEnd(s) ==
  IF Len(s) > 0 /\ s[Len(s)] \in WhiteSpace THEN TrimEnd(SubSeq(s, 1, Len(s) - 1)) ELSE s

\* String.prototype.trim
Trim(s) == TrimEnd(TrimStart(s))

\* envContent.split(/\r?\n/): a "\r" right before a "\n" belongs to the separator.
SplitLines(content) ==
  LET raw == Split(content, "\n")
  IN [i \in 1..Len(raw) |->
        IF i < Len(raw) /\ Len(raw[i]) > 0 /\ raw[i][Len(raw[i])] = "\r"
          THEN SubSeq(raw[i], 1, Len(raw[i]) - 1)
          ELSE raw[i]]

\* s.replace(/^q(.*)q$/, '$1') for a quote character q ('.' matches no line end).
StripQuote(s, q) ==
  IF Len(s) >= 2 /\ s[1] = q /\ s[Len(s)] = q
     /\ \A i \in 2..(Len(s) - 1) : s[i] \notin {"\n", "\r"}
    THEN SubSeq(s, 2, Len(s) - 1)
    ELSE s

\* Map.prototype.set
MapSet(m, k, v) == [x \in DOMAIN m \cup {k} |-> IF x = k THEN v ELSE m[x]]

EmptyMap == [x \in {} |-> <<>>]

\* The body of the for loop of parseEnvContent for one line.
ParseLine(m, line) ==
  IF Trim(line) = <<>> \/ StartsWith(Trim(line), <<"#">>) THEN m
  ELSE LET parts == Split(line, "=")
           key == parts[1]
           value == StripQuote(StripQuote(Trim(JoinWith(Tail(parts), <<"=">>)), "\""), "'")
       IN IF Len(key) > 0 THEN MapSet(m, Trim(key), value) ELSE m

RECURSIVE ParseLines(_, _)
ParseLines(m, lines) ==
  IF Len(lines) = 0 THEN m ELSE ParseLines(ParseLine(m, Head(lines)), Tail(lines))

parseEnvContent(envContent) == ParseLines(EmptyMap, SplitLines(envContent))

(***************************************************************************)
(* Environment Substitution: the replace call of resolveEnvVariables.      *)
(***************************************************************************)
WordChars ==
  {"a","b","c","d","e","f","g","h","i","j","k","l","m","n","o","p","q","r","s","t",
   "u","v","w","x","y","z","A","B","C","D","E","F","G","H","I","J","K","L","M","N",
   "O","P","Q","R","S","T","U","V","W","X","Y","Z","0","1","2","3","4","5","6","7",
   "8","9","_"}

RECURSIVE SkipWhile(_, _, _)
\* The first index >= i of s whose character is not in set (Len(s) + 1 if none).
SkipWhile(s, i, set) ==
  IF i <= Len(s) /\ s[i] \in set THEN SkipWhile(s, i + 1, set) ELSE i

EnvPrefix == <<"$", "{", "e", "n", "v", ":">>

\* A match of /\$\{env:\s*([\w_]+)\}/ starting at index i: [ok, name, last].
MatchAt(s, i) ==
  IF i + Len(EnvPrefix) - 1 <= Len(s) /\ SubSeq(s, i, i + Len(EnvPrefix) - 1) = EnvPrefix
    THEN LET j == SkipWhile(s, i + Len(EnvPrefix), WhiteSpace)
             k == SkipWhile(s, j, WordChars)
         IN IF k > j /\ k <= Len(s) /\ s[k] = "}"
              THEN [ok |-> TRUE, name |-> SubSeq(s, j, k - 1), last |-> k]
              ELSE [ok |-> FALSE, name |-> <<>>, last |-> i]
    ELSE [ok |-> FALSE, name |-> <<>>, last |-> i]

\* The replacer callback: the env-file's value, else process.env's, else "".
LookupVariable(envMap, procEnv, name) ==
  IF name \in DOMAIN envMap THEN envMap[name]
  ELSE IF name \in DOMAIN procEnv THEN procEnv[name]
  ELSE <<>>

RECURSIVE ReplaceFrom(_, _, _, _)
ReplaceFrom(s, i, envMap, procEnv) ==
  IF i > Len(s) THEN <<>>
  ELSE LET m == MatchAt(s, i)
       IN IF m.ok
            THEN LookupVariable(envMap, procEnv, m.name)
                 \o ReplaceFrom(s, m.last + 1, envMap, procEnv)
            ELSE <<s[i]>> \o ReplaceFrom(s, i + 1, envMap, procEnv)

(***************************************************************************)
(* Root Resolver: resolveEnvPath, readWorkspaceFile, resolveEnvVariables,  *)
(* resolvePath.  ws is workspace.workspaceFolders (<<>> when none is       *)
(* open), files maps the readable files to their contents, procEnv is      *)
(* process.env.                                                            *)
(***************************************************************************)
Truthy(o) == o.has /\ Len(o.v) > 0

\* workspaceFolders?.find(f => defaultPath.startsWith(basename(f.uri.path) + "/"))
RECURSIVE FindBySegment(_, _)
FindBySegment(ws, defaultPath) ==
  IF Len(ws) = 0 THEN None
  ELSE IF StartsWith(defaultPath, Basename(ws[1].uri) \o <<"/">>) THEN Some(ws[1])
  ELSE FindBySegment(Tail(ws), defaultPath)

\* workspaceFolders?.find(f => f.name == defaultWorkspace)
RECURSIVE FindByName(_, _)
FindByName(ws, name) ==
  IF Len(ws) = 0 THEN None
  ELSE IF ws[1].name = name THEN Some(ws[1])
  ELSE FindByName(Tail(ws), name)

\* The multi-root tail shared by resolveEnvPath and resolvePath.
ResolveAmongRoots(ws, defaultWorkspace, path) ==
  LET bySeg == FindBySegment(ws, UriParsePath(path))
      byName == IF Truthy(defaultWorkspace) THEN FindByName(ws, defaultWorkspace.v) ELSE None
  IN IF bySeg.has THEN Some(JoinPath(bySeg.v.uri, path))
     ELSE IF byName.has THEN Some(JoinPath(byName.v.uri, path))
     ELSE None

resolveEnvPath(filePath, defaultWorkspace, ws) ==
  IF StartsWith(filePath, <<"/">>) THEN Some(UriParsePath(filePath))
  ELSE IF Len(ws) = 1 THEN Some(JoinPath(ws[1].uri, filePath))
  ELSE ResolveAmongRoots(ws, defaultWorkspace, filePath)

\* fs.readFile(uri!) rejects for an undefined uri and for a file it cannot read.
ReadFails(filePath, defaultWorkspace, ws, files) ==
  LET uri == resolveEnvPath(filePath, defaultWorkspace, ws)
  IN ~uri.has \/ uri.v \notin DOMAIN files

\* readWorkspaceFile without its try/catch.
readWorkspaceFilePropagating(filePath, defaultWorkspace, ws, files) ==
  IF ReadFails(filePath, defaultWorkspace, ws, files)
    THEN [threw |-> TRUE, content |-> <<>>]
    ELSE [threw |-> FALSE,
          content |-> files[resolveEnvPath(filePath, defaultWorkspace, ws).v]]

\* The catch of readWorkspaceFile turns every failure into ''.
readWorkspaceFile(filePath, defaultWorkspace, ws, files) ==
  IF ReadFails(filePath, defaultWorkspace, ws, files)
    THEN [threw |-> FALSE, content |-> <<>>]
    ELSE [threw |-> FALSE,
          content |-> files[resolveEnvPath(filePath, defaultWorkspace, ws).v]]

\* resolveEnvVariables: [threw, v].  The env-file is read with defaultEnvFile
\* passed in the place of the workspace name (line 269).
resolveEnvVariables(path, defaultEnvFile, defaultWorkspace, ws, files, procEnv) ==
  IF ~Truthy(path) THEN [threw |-> FALSE, v |-> <<>>]
  ELSE LET read == IF Truthy(defaultEnvFile)
                     THEN readWorkspaceFile(defaultEnvFile.v, defaultEnvFile, ws, files)
                     ELSE [threw |-> FALSE, content |-> <<>>]
           envMap == IF Truthy(defaultEnvFile) THEN parseEnvContent(read.content)
                     ELSE EmptyMap
       IN IF read.threw THEN [threw |-> TRUE, v |-> <<>>]
          ELSE [threw |-> FALSE, v |-> ReplaceFrom(path.v, 1, envMap, procEnv)]

\* resolvePath from line 226 on: path is the substituted string.
ResolveSubstituted(defaultWorkspace, defaultInputPath, path, ws) ==
  IF StartsWith(path, <<"/">>) THEN Some(UriParsePath(path))
  ELSE LET p == IF Truthy(defaultInputPath) /\ path = <<>> THEN defaultInputPath.v ELSE path
       IN IF Len(ws) = 1 THEN Some(JoinPath(ws[1].uri, p))
          ELSE ResolveAmongRoots(ws, defaultWorkspace, p)

\* resolvePath: [threw, uri].
resolvePath(defaultWorkspace, defaultInputPath, defaultEnvFile, path, ws, files, procEnv) ==
  IF ~path.has
    THEN [threw |-> FALSE, uri |-> IF Len(ws) >= 1 THEN Some(ws[1].uri) ELSE None]
  ELSE LET sub == resolveEnvVariables(path, defaultEnvFile, defaultWorkspace, ws, files, procEnv)
       IN IF sub.threw THEN [threw |-> TRUE, uri |-> None]
          ELSE [threw |-> FALSE,
                uri |-> ResolveSubstituted(defaultWorkspace, defaultInputPath, sub.v, ws)]


(***************************************************************************)
(* The file system the host lists (fs.readDirectory), and FileType.        *)
(***************************************************************************)
File == "File"
Directory == "Directory"
SymbolicLinkFile == "SymbolicLink|File"

Abs(segs) == <<"/">> \o JoinWith(segs, <<"/">>)

Nw == <<"w">>
Na == <<"a">>
Nb == <<"b">>
Nd == <<"d">>
Ne == <<"e">>
Nsub == <<"s", "u", "b">>
Nln == <<"l", "n">>
Nxenv == <<"x", ".", "e", "n", "v">>
Nytxt == <<"y", ".", "t", "x", "t">>
Nzenv == <<"z", ".", "e", "n", "v">>

Entry(n, t) == [name |-> n, type |-> t]

\* Directory tree:  /w/a/{x.env, y.txt, sub/{z.env}}   /w/b/{ln -> file, d/{e}}
Tree ==
  (Abs(<<>>) :> <<Entry(Nw, Directory)>>) @@
  (Abs(<<Nw>>) :> <<Entry(Na, Directory), Entry(Nb, Directory)>>) @@
  (Abs(<<Nw, Na>>) :> <<Entry(Nxenv, File), Entry(Nytxt, File), Entry(Nsub, Directory)>>) @@
  (Abs(<<Nw, Na, Nsub>>) :> <<Entry(Nzenv, File)>>) @@
  (Abs(<<Nw, Nb>>) :> <<Entry(Nln, SymbolicLinkFile), Entry(Nd, Directory)>>) @@
  (Abs(<<Nw, Nb, Nd>>) :> <<Entry(Ne, File)>>)

\* Whether a location is a directory of the file system.
IsDirectory(p) == p \in DOMAIN Tree

(***************************************************************************)
(* pickWithQuick: the list handed to showQuickPick (lines 101-118).        *)
(***************************************************************************)
\* RegExp(regx).test(s) for a pattern of literal word characters.
RegExpTest(regx, s) == Contains(s, regx)

Item(d, e) ==
  [uri |-> JoinPath(d, e.name), name |-> e.name, type |-> e.type,
   label |-> IF e.type = Directory THEN e.name \o <<"/">> ELSE e.name]

KeepItem(e, o) ==
  /\ (e.type = Directory \/ ~o.filterRegExp.has \/ RegExpTest(o.filterRegExp.v, e.uri))
  /\ (e.type = Directory \/ ~o.filterExt.has \/ EndsWith(e.uri, o.filterExt.v))
  /\ (e.type # Directory \/ o.canSelectFolders \/ o.canChangeFolder)
  /\ (e.type # File \/ o.canSelectFiles)

\* d is the normalised directory, children what fs.readDirectory(d) returned.
QuickPickItems(d, children, o) ==
  LET all == (IF o.canChangeFolder THEN <<Entry(<<".", ".">>, Directory)>> ELSE <<>>)
             \o (IF o.canSelectFolders THEN <<Entry(<<".">>, Directory)>> ELSE <<>>)
             \o children
      items == [i \in 1..Len(all) |-> Item(d, all[i])]
      Keep(e) == KeepItem(e, o)
  IN SelectSeq(items, Keep)

\* What a prompt can resolve to, as sequences of indexes into the list: one
\* entry, or with canPickMany any selection of at most MaxPick entries.
Picks(n, many) ==
  IF many
    THEN UNION {{q \in [1..k -> 1..n] : \A i, j \in 1..k : i # j => q[i] # q[j]} : k \in 0..MaxPick}
    ELSE {<<i>> : i \in 1..n}

\* The test of lines 124-129 without its comparison with the current directory.
ShouldDescendIgnoringCurrent(items, d, o) ==
  /\ o.canChangeFolder
  /\ Len(items) = 1
  /\ items[1].type = Directory

\* The test of lines 124-129.
ShouldDescend(items, d, o) ==
  /\ o.canChangeFolder
  /\ Len(items) = 1
  /\ items[1].type = Directory
  /\ items[1].uri # d

\* A cancel that returns the directory being browsed.
OnCancelReturnsDir(d) == Some(<<d>>)

\* Lines 120-122: a cancelled prompt returns undefined.
OnCancel(d) == None

(***************************************************************************)
(* formatUris and the tail of pickHandler (lines 43-53).                   *)
(***************************************************************************)
\* uri.fsPath of a file Uri without authority or drive letter, on POSIX.
FsPath(p) == p

formatUris(u, out) ==
  IF ~u.has THEN None
  ELSE Some(JoinWith([i \in 1..Len(u.v) |-> IF out.fsPath THEN FsPath(u.v[i]) ELSE u.v[i]],
                     out.join))

Str(s) == [kind |-> "string", v |-> s]
Undef == [kind |-> "undefined", v |-> <<>>]
Threw == [kind |-> "threw", v |-> <<>>]
Pending == [kind |-> "pending", v |-> <<>>]

OfOption(x) == IF x.has THEN Str(x.v) ELSE Undef

\* The tail of pickHandler with output.defaultPath tested before output.default.
PickHandlerReturnPathFirst(u, o, out, ws) ==
  IF u.has THEN OfOption(formatUris(u, out))
  ELSE IF out.defaultPath.has
    THEN LET r == resolvePath(o.defaultWorkspace, o.defaultInputPath, o.defaultEnvFile,
                              out.defaultPath, ws, EmptyMap, EmptyMap)
             formated == IF r.uri.has THEN formatUris(Some(<<r.uri.v>>), out) ELSE None
         IN IF formated.has THEN Str(formated.v) ELSE Str(out.defaultPath.v)
  ELSE IF out.default.has THEN Str(out.default.v)
  ELSE Undef

PickHandlerReturn(u, o, out, ws) ==
  IF u.has THEN OfOption(formatUris(u, out))
  ELSE IF out.default.has THEN Str(out.default.v)
  ELSE IF out.defaultPath.has
    THEN LET r == resolvePath(o.defaultWorkspace, o.defaultInputPath, o.defaultEnvFile,
                              out.defaultPath, ws, EmptyMap, EmptyMap)
             formated == IF r.uri.has THEN formatUris(Some(<<r.uri.v>>), out) ELSE None
         IN IF formated.has THEN Str(formated.v) ELSE Str(out.defaultPath.v)
  ELSE Undef

(***************************************************************************)
(* The configurations and workspaces the model explores.                   *)
(***************************************************************************)
FoldersNone == <<>>
FoldersOne == <<[name |-> Nb, uri |-> Abs(<<Nw, Nb>>)]>>
FoldersTwo == <<[name |-> Na, uri |-> Abs(<<Nw, Na>>)],
                [name |-> <<"n">>, uri |-> Abs(<<Nw, Nb>>)]>>

\* parseArgs: the defaults of lines 57-66 overridden by the caller's fields.
Options ==
  [path : {None, Some(Abs(<<Nw, Na>>) \o <<"/">>), Some(Nd), Some(Abs(<<<<"q">>>>))},
   native : BOOLEAN,
   canSelectFiles : BOOLEAN,
   canSelectFolders : BOOLEAN,
   canChangeFolder : BOOLEAN,
   canSelectMany : BOOLEAN,
   filterRegExp : {None, Some(<<"x">>)},
   filterExt : {None, Some(<<".", "e", "n", "v">>)},
   defaultInputPath : {None},
   defaultWorkspace : {None},
   defaultEnvFile : {None}]

Outputs ==
  [join : {<<",">>},
   fsPath : {TRUE},
   defaultPath : {None, Some(<<"d", "/", "e">>)},
   default : {None, Some(<<"X">>)}]

\* showOpenDialog resolves to undefined or to the chosen locations.
NativeResults ==
  {None, Some(<<Abs(<<Nw, Na, Nxenv>>)>>),
   Some(<<Abs(<<Nw, Na, Nxenv>>), Abs(<<Nw, Nb>>)>>)}

ResInit ==
  /\ rpc = "idle"
  /\ rIn = <<>>
  /\ rSub = <<>>
  /\ rOut = [threw |-> FALSE, uri |-> None]

Init ==
  /\ pc = "start"
  /\ opts \in Options
  /\ output \in Outputs
  /\ folders \in {FoldersNone, FoldersOne, FoldersTwo}
  /\ dir = <<>>
  /\ list = <<>>
  /\ res = None
  /\ uris = None
  /\ result = Pending
  /\ listed = <<>>
  /\ nPrompts = 0
  /\ cancelled = FALSE
  /\ ResInit

(***************************************************************************)
(* pickHandler, lines 37-41: resolve the starting directory.               *)
(***************************************************************************)
Start ==
  /\ pc = "start"
  /\ LET r == resolvePath(opts.defaultWorkspace, opts.defaultInputPath, opts.defaultEnvFile,
                          opts.path, folders, EmptyMap, EmptyMap)
     IN IF opts.native
          THEN /\ dir' = (IF r.uri.has THEN r.uri.v ELSE <<>>)
               /\ pc' = "native"
          ELSE /\ dir' = (IF r.uri.has THEN r.uri.v ELSE UriParsePath(<<>>))
               /\ pc' = "browse"
  /\ UNCHANGED <<opts, output, folders, list, res, uris, result, listed, nPrompts, cancelled>>
  /\ UNCHANGED resVars

\* pickWithNative: the dialog resolves.
Native ==
  /\ pc = "native"
  /\ \E r \in NativeResults : uris' = r
  /\ pc' = "finish"
  /\ UNCHANGED <<opts, output, folders, dir, list, res, result, listed, nPrompts, cancelled>>
  /\ UNCHANGED resVars

\* pickWithQuick, lines 101-118: normalise dir, list it, show the prompt.
\* fs.readDirectory rejects for a location that is no directory.
Browse ==
  /\ pc = "browse"
  /\ nPrompts < MaxPrompts
  /\ LET d == JoinPath(dir, <<".">>)
     IN /\ dir' = d
        /\ listed' = d
        /\ IF d \in DOMAIN Tree
             THEN /\ list' = QuickPickItems(d, Tree[d], opts)
                  /\ nPrompts' = nPrompts + 1
                  /\ pc' = "prompt"
                  /\ result' = result
             ELSE /\ list' = <<>>
                  /\ nPrompts' = nPrompts
                  /\ pc' = "done"
                  /\ result' = Threw
  /\ UNCHANGED <<opts, output, folders, res, uris, cancelled>>
  /\ UNCHANGED resVars

\* The user cancels the prompt (lines 120-122).
Cancel ==
  /\ pc = "prompt"
  /\ res' = None
  /\ cancelled' = TRUE
  /\ uris' = OnCancel(dir)
  /\ pc' = "finish"
  /\ UNCHANGED <<opts, output, folders, dir, list, result, listed, nPrompts>>
  /\ UNCHANGED resVars

\* The user chooses (lines 123-132).
Select ==
  /\ pc = "prompt"
  /\ \E q \in Picks(Len(list), opts.canSelectMany) :
       LET items == [i \in 1..Len(q) |-> list[q[i]]]
       IN /\ res' = Some(items)
          /\ IF ShouldDescend(items, dir, opts)
               THEN /\ dir' = items[1].uri
                    /\ pc' = "browse"
                    /\ uris' = uris
               ELSE /\ dir' = dir
                    /\ pc' = "finish"
                    /\ uris' = Some([i \in 1..Len(items) |-> items[i].uri])
  /\ UNCHANGED <<opts, output, folders, list, result, listed, nPrompts, cancelled>>
  /\ UNCHANGED resVars

\* pickHandler, lines 43-53.
Finish ==
  /\ pc = "finish"
  /\ result' = PickHandlerReturn(uris, opts, output, folders)
  /\ pc' = "done"
  /\ UNCHANGED <<opts, output, folders, dir, list, res, uris, listed, nPrompts, cancelled>>
  /\ UNCHANGED resVars

Next == Start \/ Native \/ Browse \/ Cancel \/ Select \/ Finish

Spec == Init /\ [][Next]_vars


(***************************************************************************)
(* A stand-alone call of resolvePath, with its await of                    *)
(* resolveEnvVariables as a step of its own.                               *)
(***************************************************************************)
EnvName == <<".", "e", "n", "v">>
VarA == <<"A">>
Placeholder == <<"$", "{", "e", "n", "v", ":", "A", "}">>

\* Env-file contents:  A=d | A | #A=d | A="d"<CR><LF>A = e
Contents ==
  {<<"A", "=", "d">>,
   <<"A">>,
   <<"#", "A", "=", "d">>,
   <<"A", "=", "\"", "d", "\"", "\r", "\n", "A", " ", "=", " ", "e">>}

ResolveInputs ==
  [ws : {FoldersNone, FoldersOne, FoldersTwo},
   path : {None, Some(<<>>), Some(<<"a", "/", "s">>), Some(<<"d", "/", "e">>),
           Some(Abs(<<Nw>>)), Some(Placeholder \o <<"/">> \o Ne)},
   defaultWorkspace : {None, Some(<<"n">>)},
   defaultInputPath : {None, Some(Nd)},
   defaultEnvFile : {None, Some(EnvName)},
   files : {EmptyMap} \cup {(Abs(<<Nw, Nb, EnvName>>) :> c) : c \in Contents},
   procEnv : {EmptyMap, (VarA :> <<"p">>)}]

NavIdle ==
  /\ pc = "idle"
  /\ opts = <<>>
  /\ output = <<>>
  /\ folders = <<>>
  /\ dir = <<>>
  /\ list = <<>>
  /\ res = None
  /\ uris = None
  /\ result = Pending
  /\ listed = <<>>
  /\ nPrompts = 0
  /\ cancelled = FALSE

InitResolve ==
  /\ NavIdle
  /\ rpc = "call"
  /\ rIn \in ResolveInputs
  /\ rSub = <<>>
  /\ rOut = [threw |-> FALSE, uri |-> None]

\* resolvePath, lines 215-224.
ResolveBegin ==
  /\ rpc = "call"
  /\ IF ~rIn.path.has
       THEN /\ rOut' = resolvePath(rIn.defaultWorkspace, rIn.defaultInputPath,
                                   rIn.defaultEnvFile, rIn.path, rIn.ws, rIn.files,
                                   rIn.procEnv)
            /\ rSub' = rSub
            /\ rpc' = "done"
       ELSE LET sub == resolveEnvVariables(rIn.path, rIn.defaultEnvFile, rIn.defaultWorkspace,
                                           rIn.ws, rIn.files, rIn.procEnv)
            IN IF sub.threw
                 THEN /\ rOut' = [threw |-> TRUE, uri |-> None]
                      /\ rSub' = rSub
                      /\ rpc' = "done"
                 ELSE /\ rOut' = rOut
                      /\ rSub' = sub.v
                      /\ rpc' = "substituted"
  /\ UNCHANGED <<rIn>>
  /\ UNCHANGED navVars

\* resolvePath, lines 226-256.
ResolveEnd ==
  /\ rpc = "substituted"
  /\ rOut' = [threw |-> FALSE,
              uri |-> ResolveSubstituted(rIn.defaultWorkspace, rIn.defaultInputPath, rSub,
                                         rIn.ws)]
  /\ rpc' = "done"
  /\ UNCHANGED <<rIn, rSub>>
  /\ UNCHANGED navVars

NextResolve == ResolveBegin \/ ResolveEnd

SpecResolve == InitResolve /\ [][NextResolve]_vars


(***************************************************************************)
(* The properties.                                                         *)
(***************************************************************************)
Names(items) == {items[i].name : i \in 1..Len(items)}

\* A file of directory d matches the configured filters.
MatchesFilters(d, e, o) ==
  /\ (o.filterExt.has => EndsWith(JoinPath(d, e.name), o.filterExt.v))
  /\ (o.filterRegExp.has => RegExpTest(o.filterRegExp.v, JoinPath(d, e.name)))

\* C1: the list handed to the prompt holds '..' iff canChangeFolder, '.' iff
\* canSelectFolders, each subdirectory iff canSelectFolders or canChangeFolder,
\* each file iff canSelectFiles and it matches the filters, and nothing else;
\* with canSelectFolders and canChangeFolder both off it holds files only.
C1_ListContents ==
  pc = "prompt" =>
    LET children == Tree[dir]
        Sub(e) == IsDirectory(JoinPath(dir, e.name))
    IN /\ (<<".", ".">> \in Names(list)) = opts.canChangeFolder
       /\ (<<".">> \in Names(list)) = opts.canSelectFolders
       /\ \A i \in 1..Len(children) :
            (children[i].name \in Names(list)) =
              IF Sub(children[i])
                THEN opts.canSelectFolders \/ opts.canChangeFolder
                ELSE opts.canSelectFiles /\ MatchesFilters(dir, children[i], opts)
       /\ Names(list) \subseteq
            {<<".", ".">>, <<".">>} \cup {children[i].name : i \in 1..Len(children)}
       /\ ((~opts.canSelectFolders /\ ~opts.canChangeFolder) =>
             \A i \in 1..Len(list) : ~IsDirectory(list[i].uri))

DefaultFallback ==
  IF output.default.has THEN Str(output.default.v)
  ELSE IF output.defaultPath.has
    THEN LET r == resolvePath(opts.defaultWorkspace, opts.defaultInputPath,
                              opts.defaultEnvFile, output.defaultPath, folders,
                              EmptyMap, EmptyMap)
         IN IF r.uri.has THEN Str(r.uri.v) ELSE Str(output.defaultPath.v)
  ELSE Undef

\* C3: with no selection pickHandler returns output.default if configured,
\* else the formatted location of the re-resolved output.defaultPath (R/d/e
\* for a single root R), or the raw defaultPath when it cannot be resolved,
\* else undefined.
C3_DefaultPriority ==
  (pc = "done" /\ result.kind # "threw" /\ ~uris.has) =>
    /\ result = DefaultFallback
    /\ ((~output.default.has /\ output.defaultPath.has /\ Len(folders) = 1) =>
          result = Str(folders[1].uri \o <<"/">> \o output.defaultPath.v))
    /\ ((~output.default.has /\ output.defaultPath.has /\ Len(folders) = 0) =>
          result = Str(output.defaultPath.v))

\* C3's case: a cancelled pick with only output.defaultPath set, one root.
C3_Witness ==
  /\ pc = "done"
  /\ ~uris.has
  /\ ~output.default.has
  /\ output.defaultPath.has
  /\ folders = FoldersOne
  /\ result = Str(Abs(<<Nw, Nb, Nd, Ne>>))

\* C4: an empty selection list is treated as no selection: pickHandler then
\* applies the default fallback instead of returning the empty string.
C4_EmptySelection ==
  (pc = "done" /\ uris.has /\ uris.v = <<>>) =>
    /\ formatUris(uris, output) = None
    /\ result = DefaultFallback

\* C5: once a prompt was cancelled there is no selection, no further listing
\* and no further prompt, and without configured defaults the command
\* returns undefined.
C5_CancelEnds ==
  [][/\ (cancelled' =>
           /\ ~uris'.has
           /\ pc' \in {"finish", "done"}
           /\ ((pc' = "done" /\ ~output.default.has /\ ~output.defaultPath.has) =>
                 result' = Undef))
      /\ (cancelled =>
           (listed' = listed /\ nPrompts' = nPrompts /\ dir' = dir /\ list' = list))]_vars

\* C5's case: the second prompt of a descent was cancelled.
C5_Witness ==
  /\ cancelled
  /\ nPrompts = 2
  /\ pc = "done"
  /\ result = Undef

\* C10: with canSelectFolders off no location returned by the quick-select
\* navigation is a directory.
C10_NoFolderReturned ==
  (pc \in {"finish", "done"} /\ ~opts.native /\ ~opts.canSelectFolders /\ uris.has) =>
    \A i \in 1..Len(uris.v) : ~IsDirectory(uris.v[i])

(***************************************************************************)
(* Properties of resolvePath.                                              *)
(***************************************************************************)
Resolved == rpc \in {"substituted", "done"} /\ rIn.path.has

\* The roots whose final folder name is the leading segment of path p.
RootsBySegment(ws, p) ==
  {i \in 1..Len(ws) : Len(Split(p, "/")) >= 2 /\ Basename(ws[i].uri) = Split(p, "/")[1]}

RootsByName(ws, dw) == {i \in 1..Len(ws) : Truthy(dw) /\ ws[i].name = dw.v}

\* C6: with several roots a relative path resolves under a root whose final
\* folder name is the path's leading segment, else under the root named
\* defaultWorkspace, else to undefined.
C6_MultiRoot ==
  (rpc = "done" /\ rIn.path.has /\ Len(rIn.ws) >= 2 /\ Len(rSub) > 0 /\ rSub[1] # "/") =>
    LET bySeg == RootsBySegment(rIn.ws, rSub)
        byName == RootsByName(rIn.ws, rIn.defaultWorkspace)
    IN IF bySeg # {}
         THEN \E i \in bySeg : rOut.uri = Some(JoinPath(rIn.ws[i].uri, rSub))
       ELSE IF byName # {}
         THEN \E i \in byName : rOut.uri = Some(JoinPath(rIn.ws[i].uri, rSub))
       ELSE rOut.uri = None

\* The env-file is configured and the read of it fails.
EnvReadFails ==
  /\ Truthy(rIn.path)
  /\ Truthy(rIn.defaultEnvFile)
  /\ ReadFails(rIn.defaultEnvFile.v, rIn.defaultEnvFile, rIn.ws, rIn.files)

\* C7 as stated: a failed read of the env-file does not raise, and every
\* placeholder of the path is then replaced by the empty string.
C7_AllPlaceholdersEmpty ==
  (Resolved /\ EnvReadFails) =>
    /\ ~rOut.threw
    /\ rSub = ReplaceFrom(rIn.path.v, 1, EmptyMap, EmptyMap)

\* C7 as amended: a failed read of the env-file does not raise, the content
\* degrades to the empty string, and every placeholder is then resolved from
\* the process environment (the empty string for a name it does not define).
C7_ReadFailureDegrades ==
  (Resolved /\ EnvReadFails) =>
    /\ ~rOut.threw
    /\ (rpc = "done" => rOut.uri = ResolveSubstituted(rIn.defaultWorkspace,
                                                      rIn.defaultInputPath, rSub, rIn.ws))
    /\ rSub = ReplaceFrom(rIn.path.v, 1, EmptyMap, rIn.procEnv)
    /\ (rIn.path.v = Placeholder \o <<"/">> \o Ne =>
          rSub = (IF VarA \in DOMAIN rIn.procEnv THEN rIn.procEnv[VarA] ELSE <<>>)
                 \o <<"/">> \o Ne)

\* C7's case: the env-file is missing and the process environment defines A.
C7_Witness ==
  /\ rpc = "done"
  /\ EnvReadFails
  /\ rIn.files = EmptyMap
  /\ rIn.ws = FoldersOne
  /\ rIn.path.v = Placeholder \o <<"/">> \o Ne
  /\ rSub = <<"p", "/">> \o Ne

\* C8: with several roots and an env-file path whose leading segment names no
\* root, the env-file is read from the root named options.defaultWorkspace
\* and its keys are used for the substitution.
C8_EnvFileUnderDefaultWorkspace ==
  (/\ Resolved
   /\ Truthy(rIn.path)
   /\ Truthy(rIn.defaultEnvFile)
   /\ Len(rIn.ws) >= 2
   /\ RootsBySegment(rIn.ws, rIn.defaultEnvFile.v) = {}
   /\ \E i \in RootsByName(rIn.ws, rIn.defaultWorkspace) :
        JoinPath(rIn.ws[i].uri, rIn.defaultEnvFile.v) \in DOMAIN rIn.files) =>
    \E i \in RootsByName(rIn.ws, rIn.defaultWorkspace) :
      rSub = ReplaceFrom(rIn.path.v, 1,
                         parseEnvContent(rIn.files[JoinPath(rIn.ws[i].uri,
                                                            rIn.defaultEnvFile.v)]),
                         rIn.procEnv)

\* The keys of the lines of an env-file that hold a '='.
AssignedKeys(content) ==
  {Trim(Split(SplitLines(content)[i], "=")[1]) :
     i \in {j \in 1..Len(SplitLines(content)) : "=" \in
              {SplitLines(content)[j][k] : k \in 1..Len(SplitLines(content)[j])}}}

\* C9: the parser extracts no key from a line without '=', so a placeholder
\* whose name appears only on such a line is resolved from the process
\* environment.
C9_NoKeyWithoutEquals ==
  (/\ Resolved
   /\ Truthy(rIn.path)
   /\ Truthy(rIn.defaultEnvFile)
   /\ ~ReadFails(rIn.defaultEnvFile.v, rIn.defaultEnvFile, rIn.ws, rIn.files)) =>
    LET content == readWorkspaceFile(rIn.defaultEnvFile.v, rIn.defaultEnvFile, rIn.ws,
                                     rIn.files).content
        m == parseEnvContent(content)
        assigned == [k \in DOMAIN m \cap AssignedKeys(content) |-> m[k]]
    IN /\ DOMAIN m \subseteq AssignedKeys(content)
       /\ rSub = ReplaceFrom(rIn.path.v, 1, assigned, rIn.procEnv)

====
